---- MODULE Spec2Model ----
(***************************************************************************)
(* Model of the AI news consumer (app/services/ai_consumer.py): the        *)
(* consumption loop of AINewsConsumer.start, the per-event pipeline of     *)
(* process_article (four concurrent subtasks joined by asyncio.gather),    *)
(* the persistence pass of _save_to_database, and the shutdown paths that  *)
(* call AINewsConsumer.stop (direct call, FastAPI lifespan, signal         *)
(* handler of consumer_runner).                                            *)
(*                                                                         *)
(* Steps are taken at the await points of the coroutines: code between two *)
(* awaits runs without interleaving on the event loop, so it is one action.*)
(* _save_to_database contains no await (the SQLAlchemy session is          *)
(* synchronous), so resuming from gather, saving and returning to the loop *)
(* is a single step. The value a subtask returned is held by the gather    *)
(* future and read by nobody before gather returns (line 102), so the      *)
(* model records that a subtask has returned when it returns and draws the *)
(* returned values when gather hands them over.                            *)
(***************************************************************************)
EXTENDS Integers, Sequences, FiniteSets, TLC

(***************************************************************************)
(* Bounds and input domains                                                *)
(***************************************************************************)
MaxEvents == 2          \* number of messages the broker delivers in a run

None == "None"          \* Python None where the other values are strings
NoScore == 0 - 1        \* Python None for veracity_score (distinct from 0)
Missing == "MISSING"    \* an absent dict key

EventIds == {"", "a1", "a2"}            \* "" : event without id
Contents == {"", "c"}                   \* "" : event without content
DbArticleIds == {"a0", "a1"}            \* rows of table articles ("a2" has none)

\* variant of Subtasks in which the fallback claim query is a subtask of its
\* own, started with the others
SubtasksWithFallback == {"kid", "pro", "jargon", "veracity", "fallback"}

\* the coroutines process_article hands to asyncio.gather (lines 96-99)
Subtasks == {"kid", "pro", "jargon", "veracity"}

\* what gemini_service.generate_summary can do: raise, or return a text
SummaryOutcomes ==
    { [kind |-> "raise", val |-> ""],
      [kind |-> "value", val |-> ""],
      [kind |-> "value", val |-> "s1"],
      [kind |-> "value", val |-> "s2"] }

\* items of an extracted list: dicts (with or without keys) and non-dicts
T1 == [isdict |-> TRUE, term |-> "t1", definition |-> "d1", difficulty |-> "basic"]
T2 == [isdict |-> TRUE, term |-> "t2", definition |-> Missing, difficulty |-> Missing]
NoTerm == [isdict |-> TRUE, term |-> "", definition |-> "d3", difficulty |-> "basic"]
NotDict == [isdict |-> FALSE, term |-> Missing, definition |-> Missing, difficulty |-> Missing]

\* what gemini_service.extract_jargon can do: raise, return a non-list, a list
JargonOutcomes ==
    { [kind |-> "raise", val |-> <<>>],
      [kind |-> "notlist", val |-> <<>>],
      [kind |-> "value", val |-> <<>>],
      [kind |-> "value", val |-> <<T1>>],
      [kind |-> "value", val |-> <<NotDict, T2>>],
      [kind |-> "value", val |-> <<NoTerm>>] }

Claim(rating, score) == [rating |-> rating, score |-> score]

\* results of factcheck_service.check_claim
ErrorResult == [veracity_score |-> NoScore, claims |-> <<>>, status |-> "error"]
NoMatchResult == [veracity_score |-> NoScore, claims |-> <<>>, status |-> "no_matching_claims"]
UnratedResult == [veracity_score |-> NoScore, claims |-> <<Claim("Unrated", NoScore)>>, status |-> "success"]
FalseResult == [veracity_score |-> 0, claims |-> <<Claim("False", 0)>>, status |-> "success"]

CheckClaimOutcomes ==
    { [kind |-> "raise", val |-> ErrorResult],
      [kind |-> "value", val |-> ErrorResult],
      [kind |-> "value", val |-> NoMatchResult],
      [kind |-> "value", val |-> UnratedResult],
      [kind |-> "value", val |-> FalseResult] }

(***************************************************************************)
(* State                                                                   *)
(***************************************************************************)
VARIABLES
    pc,         \* position of the task running AINewsConsumer.start
    running,    \* AINewsConsumer.running
    kc,         \* KafkaConsumerService.consumer: "none", "created", "open", "closed"
    ev,         \* the message being processed: [id, content]
    evstate,    \* where that event is in the pipeline
    inflight,   \* subtasks of the event that have not returned yet
    vq,         \* claim-search queries issued for the event (0, 1 or 2)
    results,    \* what gather returned last: [kid, pro, jargon, veracity]
    articles,   \* table articles: id -> [veracity_score, fact_check_claims]
    summaries,  \* table article_summaries: sequence of rows
    jargon,     \* table article_jargon: sequence of rows
    dbopen,     \* storage sessions (SessionLocal) that are open
    now,        \* datetime.utcnow(), in ticks
    pulled,     \* messages delivered so far
    sd          \* the shutdown path in progress: [path, pc]

\* The broker clients of kafka_service.py, taken on their own
VARIABLES
    producer,   \* KafkaProducerService.producer: 0 (None) or a session number
    consumer,   \* KafkaConsumerService.consumer: 0 (None) or a session number
    sessions,   \* every client built so far: "starting", "open", "failed", "closed"
    call,       \* how the last call on a broker client ended: [op, outcome]
    sent        \* messages the broker has acknowledged

\* AINewsConsumer._check_veracity, taken on its own
VARIABLES
    vpc,        \* position in _check_veracity
    vtitle,     \* its argument title, a sequence of characters
    vcontent,   \* its argument content, a sequence of characters
    vqueries,   \* the texts handed to the claim search, in order
    vanswers,   \* the status of each answer, in order
    vresult,    \* what _check_veracity returned
    vkey,       \* FactCheckService.api_key is set
    vsent       \* the query texts its calls sent to the claim search, in order

\* FactCheckService._rating_to_score, taken on its own
VARIABLES
    rpc,        \* "idle", then "scored"
    rating,     \* the textual rating, a sequence of characters
    score       \* what _rating_to_score returned

\* FactCheckService.check_claim, taken on its own
VARIABLES
    fpc,        \* position in check_claim: "idle", "requested", "returned"
    fkey,       \* FactCheckService.api_key is set
    ftext,      \* its argument claim_text, a sequence of characters
    frequests,  \* the query texts sent to the claim search, in order
    fresponse,  \* what the request met: a network error or a response
    fresult     \* how check_claim ended: [outcome, val]

\* get_article_summary of api/news.py, one request
VARIABLES
    api         \* [pc, article_id, mode, outcome] of the request handler

consumervars == <<pc, running, kc, ev, evstate, inflight, vq, results,
                  articles, summaries, jargon, dbopen, now, pulled, sd>>
brokervars == <<producer, consumer, sessions, call, sent>>
veracityvars == <<vpc, vtitle, vcontent, vqueries, vanswers, vresult, vkey, vsent>>
scorervars == <<rpc, rating, score>>
factvars == <<fpc, fkey, ftext, frequests, fresponse, fresult>>
apivars == <<api>>

vars == <<consumervars, brokervars, veracityvars, scorervars, factvars, apivars>>

store == [articles |-> articles, summaries |-> summaries, jargon |-> jargon]

NoEvent == [id |-> "", content |-> ""]

\* The database when the consumer starts: article a0 was enriched in an
\* earlier run (both summaries, two terms, a score), article a1 is new.
PriorArticles ==
    [a \in DbArticleIds |->
        [veracity_score |-> IF a = "a0" THEN 100 ELSE NoScore,
         fact_check_claims |-> <<>>]]
PriorSummaries ==
    << [article_id |-> "a0", mode |-> "kid", summary |-> "s1", generated_at |-> 0],
       [article_id |-> "a0", mode |-> "pro", summary |-> "s2", generated_at |-> 0] >>
PriorJargon ==
    << [article_id |-> "a0", term |-> "t1", definition |-> "d1", difficulty |-> "basic"],
       [article_id |-> "a0", term |-> "t2", definition |-> "", difficulty |-> "intermediate"] >>
NoResults == [kid |-> None, pro |-> None, jargon |-> <<>>, veracity |-> ErrorResult]

\* no broker client has been built
BrokerIdle ==
    /\ producer = 0
    /\ consumer = 0
    /\ sessions = <<>>
    /\ call = [op |-> "none", client |-> "none", outcome |-> "none"]
    /\ sent = 0

\* _check_veracity has not been called
VeracityIdle ==
    /\ vpc = "idle"
    /\ vtitle = <<>>
    /\ vcontent = <<>>
    /\ vqueries = <<>>
    /\ vanswers = <<>>
    /\ vresult = ErrorResult
    /\ vkey = FALSE
    /\ vsent = <<>>

\* _rating_to_score has not been called
ScorerIdle ==
    /\ rpc = "idle"
    /\ rating = <<>>
    /\ score = NoScore

\* check_claim has not been called
NoResponse == [kind |-> "none", code |-> 0, body |-> [kind |-> "none"]]
FactIdle ==
    /\ fpc = "idle"
    /\ fkey = FALSE
    /\ ftext = <<>>
    /\ frequests = <<>>
    /\ fresponse = NoResponse
    /\ fresult = [outcome |-> "none", val |-> ErrorResult]

\* no request for a summary has arrived
ApiIdle ==
    api = [pc |-> "idle", article_id |-> "", mode |-> "", outcome |-> "none"]

\* AINewsConsumer.__init__, and the database as the run finds it
ConsumerIdle ==
    /\ pc = "init"
    /\ running = FALSE
    /\ kc = "none"
    /\ ev = NoEvent
    /\ evstate = "none"
    /\ inflight = {}
    /\ vq = 0
    /\ results = NoResults
    /\ articles = PriorArticles
    /\ summaries = PriorSummaries
    /\ jargon = PriorJargon
    /\ dbopen = 0
    /\ now = 0
    /\ pulled = 0
    /\ sd = [path |-> "none", pc |-> "idle"]

Init == ConsumerIdle /\ BrokerIdle /\ VeracityIdle /\ ScorerIdle /\ FactIdle /\ ApiIdle

(***************************************************************************)
(* The subtask wrappers of AINewsConsumer                                  *)
(***************************************************************************)
\* _generate_summary: the text, or None when generate_summary raised
generate_summary(o) == IF o.kind = "raise" THEN None ELSE o.val

\* _extract_jargon: the list, or [] when extract_jargon raised or returned
\* something that is not a list
extract_jargon(o) == IF o.kind = "value" THEN o.val ELSE <<>>

\* _check_veracity, one query: the result of check_claim, or the error result
\* when it raised
check_veracity(o) == IF o.kind = "raise" THEN ErrorResult ELSE o.val

\* variant of needs_fallback that does not look at content
needs_fallback_any_content(o, content) ==
    /\ o.kind = "value"
    /\ o.val.status = "no_matching_claims"

\* _check_veracity line 160: whether the fallback query is issued
needs_fallback(o, content) ==
    /\ o.kind = "value"
    /\ o.val.status = "no_matching_claims"
    /\ content # ""

(***************************************************************************)
(* _save_to_database                                                       *)
(***************************************************************************)
\* variant of the test of lines 196 and 213 that asks "is not None"
truthy_not_none(s) == s # None

\* Python truthiness of an Optional[str]
Truthy(s) == s # None /\ s # ""

Matching(rows, article_id, mode) ==
    { i \in 1..Len(rows) : rows[i].article_id = article_id /\ rows[i].mode = mode }

\* Query.first(): with one match that row (the code gives no ORDER BY; with
\* several matches the lowest row stands for the one the database returns)
First(S) == CHOOSE i \in S : \A j \in S : i <= j

\* variant of save_summary that adds a row without looking for an existing one
save_summary_insert(rows, article_id, mode, text, ts) ==
    Append(rows, [article_id |-> article_id, mode |-> mode,
                  summary |-> text, generated_at |-> ts])

\* variant of save_summary that updates the text and forgets generated_at
save_summary_keep_ts(rows, article_id, mode, text, ts) ==
    LET m == Matching(rows, article_id, mode) IN
    IF m # {}
    THEN [rows EXCEPT ![First(m)].summary = text]
    ELSE Append(rows, [article_id |-> article_id, mode |-> mode,
                       summary |-> text, generated_at |-> ts])

\* the "Save Kid summary" / "Save Pro summary" blocks: update the existing row
\* of (article_id, mode) or add a new one
save_summary(rows, article_id, mode, text, ts) ==
    LET m == Matching(rows, article_id, mode) IN
    IF m # {}
    THEN [rows EXCEPT ![First(m)].summary = text,
                      ![First(m)].generated_at = ts]
    ELSE Append(rows, [article_id |-> article_id, mode |-> mode,
                       summary |-> text, generated_at |-> ts])

\* variant of update_veracity whose guard looks at the score alone
update_veracity_if_scored(arts, article_id, vd) ==
    IF vd.veracity_score # NoScore
    THEN [arts EXCEPT ![article_id].veracity_score = vd.veracity_score]
    ELSE arts

\* variant of update_veracity without the guard of line 189
update_veracity_always(arts, article_id, vd) ==
    [arts EXCEPT ![article_id].veracity_score = vd.veracity_score]

\* the "Update article with veracity score" block. veracity_claims and
\* veracity_checked_at are not columns of Article (models.py has
\* veracity_score and fact_check_claims): assigning them changes no row.
update_veracity(arts, article_id, vd) ==
    IF vd.veracity_score # NoScore \/ vd.claims # <<>>
    THEN [arts EXCEPT ![article_id].veracity_score = vd.veracity_score]
    ELSE arts

\* dict.get(key, default)
Get(v, default) == IF v = Missing THEN default ELSE v

IsTermItem(item) == item.isdict /\ item.term # Missing /\ item.term # ""

JargonRow(article_id, item) ==
    [article_id |-> article_id,
     term |-> item.term,
     definition |-> Get(item.definition, ""),
     difficulty |-> Get(item.difficulty, "intermediate")]

\* variant of save_jargon that clears the article's rows on any list
save_jargon_always_delete(rows, article_id, jargon_list) ==
    LET kept == SelectSeq(rows, LAMBDA r : r.article_id # article_id)
        items == SelectSeq(jargon_list, IsTermItem)
    IN  kept \o [i \in 1..Len(items) |-> JargonRow(article_id, items[i])]

\* variant of save_jargon that adds the new rows without clearing the old
save_jargon_append(rows, article_id, jargon_list) ==
    LET items == SelectSeq(jargon_list, IsTermItem)
    IN  rows \o [i \in 1..Len(items) |-> JargonRow(article_id, items[i])]

\* the "Save jargon terms" block: with a non-empty list, delete the article's
\* rows and add one row per dict item that has a term
save_jargon(rows, article_id, jargon_list) ==
    IF jargon_list # <<>>
    THEN LET kept == SelectSeq(rows, LAMBDA r : r.article_id # article_id)
             items == SelectSeq(jargon_list, IsTermItem)
         IN  kept \o [i \in 1..Len(items) |-> JargonRow(article_id, items[i])]
    ELSE rows

\* the statements of _save_to_database that talk to the database, in order;
\* each can raise
FailPoints(st, article_id, kid_summary, pro_summary, jargon_list) ==
    {"none", "article_query"}
      \cup (IF article_id \in DOMAIN st.articles
            THEN {"commit"}
                   \cup (IF Truthy(kid_summary) THEN {"kid_query"} ELSE {})
                   \cup (IF Truthy(pro_summary) THEN {"pro_query"} ELSE {})
                   \cup (IF jargon_list # <<>> THEN {"jargon_delete"} ELSE {})
            ELSE {})

\* variant of rollback that leaves the flushed writes in place
rollback_keep(committed, session) == session

\* db.rollback(): the session's pending writes are discarded
rollback(committed, session) == committed

\* db.commit(): the session's pending writes become the stored rows
commit(committed, session) == session

\* variant of _save_to_database without the check of lines 184-186
article_found_always(arts, article_id) == TRUE

\* lines 182-186: the article row of the event, looked up by its id
article_found(arts, article_id) == article_id \in DOMAIN arts

\* _save_to_database on the stored rows st; failAt names the statement that
\* raises ("none": no statement raises). The result is the stored rows
\* afterwards and how the call ended.
save_to_database(st, article_id, kid_summary, pro_summary, jargon_list, veracity_data, ts, failAt) ==
    LET s1 == [st EXCEPT !.articles =
                  update_veracity(@, article_id, veracity_data)]
        s2 == IF Truthy(kid_summary)
              THEN [s1 EXCEPT !.summaries =
                       save_summary(@, article_id, "kid", kid_summary, ts)]
              ELSE s1
        s3 == IF Truthy(pro_summary)
              THEN [s2 EXCEPT !.summaries =
                       save_summary(@, article_id, "pro", pro_summary, ts)]
              ELSE s2
        s4 == [s3 EXCEPT !.jargon = save_jargon(@, article_id, jargon_list)]
        session == CASE failAt = "article_query" -> st
                     [] failAt = "kid_query" -> s1
                     [] failAt = "pro_query" -> s2
                     [] failAt = "jargon_delete" -> s3
                     [] OTHER -> s4
    IN  IF failAt = "article_query"
        THEN [store |-> rollback(st, session), outcome |-> "raised"]
        ELSE IF ~article_found(st.articles, article_id)
        THEN [store |-> st, outcome |-> "notfound"]
        ELSE IF failAt # "none"
        THEN [store |-> rollback(st, session), outcome |-> "raised"]
        ELSE [store |-> commit(st, session), outcome |-> "committed"]

(***************************************************************************)
(* AINewsConsumer.start: the consumption loop                              *)
(***************************************************************************)
dbvars == <<articles, summaries, jargon, dbopen>>
evvars == <<ev, evstate, inflight, vq, results>>
othervars == <<brokervars, veracityvars, scorervars, factvars, apivars>>

\* start() up to its first await: running = True, KafkaConsumerService.start
\* builds the AIOKafkaConsumer and awaits its start
Start ==
    /\ pc = "init"
    /\ running' = TRUE
    /\ kc' = "created"
    /\ pc' = "connecting"
    /\ UNCHANGED <<evvars, dbvars, now, pulled, sd>>
    /\ UNCHANGED othervars

\* the broker session opens; the loop awaits the first message
ConnectOk ==
    /\ pc = "connecting"
    /\ kc = "created"
    /\ kc' = "open"
    /\ pc' = "pull"
    /\ UNCHANGED <<running, evvars, dbvars, now, pulled, sd>>
    /\ UNCHANGED othervars

\* leaving the try block of start(): finally calls stop(), which sets
\* running = False and awaits KafkaConsumerService.stop. The loop's locals
\* (the message, the gathered values) are gone.
EnterFinally ==
    /\ running' = FALSE
    /\ pc' = "stopping"
    /\ ev' = NoEvent
    /\ results' = NoResults
    /\ inflight' = {}
    /\ vq' = 0

\* consumer.start() raises: logged by the outer handler, then finally
ConnectFail ==
    /\ pc = "connecting"
    /\ EnterFinally
    /\ UNCHANGED <<kc, evstate, dbvars, now, pulled, sd>>
    /\ UNCHANGED othervars

Events == [id : EventIds, content : Contents]

\* a payload that decodes to JSON which is no object (a list, a string, a
\* number): it has no key to look up
NonObject == [id |-> Missing, content |-> Missing]

\* what the value_deserializer (kafka_service.py line 80) hands to the loop
Payloads == Events \cup {NonObject}

\* line 85: article_data.get exists on a dict only
is_object(m) == m # NonObject

\* variant of loop_next in which the exception leaves the loop
loop_next_propagate(outcome) == IF outcome = "raised" THEN "stopping" ELSE "pull"

\* lines 61-65: an exception of process_article is logged and the loop
\* continues with the next message
loop_next(outcome) == "pull"

\* variant of should_break that never looks at the flag
should_break_never(run) == FALSE

\* lines 58-59: the flag is read when a message has arrived
should_break(run) == ~run

\* variant of is_valid that forgets the id check
is_valid_content_only(m) == m.content # ""

\* variant of is_valid that forgets the content check
is_valid_id_only(m) == m.id # ""

\* process_article lines 85-91: an event without id or content is skipped
is_valid(m) == m.id # "" /\ m.content # ""

\* a message arrives: the running check, then process_article up to the
\* await of asyncio.gather, to its early return, or to the AttributeError of
\* line 85 on a payload that is no object (caught at lines 63-65)
Pull ==
    /\ pc = "pull"
    /\ kc = "open"
    /\ pulled < MaxEvents
    /\ \E m \in Payloads :
         /\ pulled' = pulled + 1
         /\ now' = now + 1
         /\ IF should_break(running)
            THEN /\ EnterFinally
                 /\ evstate' = "refused"
            ELSE IF ~is_object(m)
            THEN /\ ev' = m
                 /\ evstate' = "rejected"
                 /\ pc' = loop_next("raised")
                 /\ running' = (IF pc' = "pull" THEN running ELSE FALSE)
                 /\ UNCHANGED <<inflight, vq, results>>
            ELSE IF ~is_valid(m)
            THEN /\ ev' = m
                 /\ evstate' = "dropped"
                 /\ pc' = "pull"
                 /\ UNCHANGED <<running, inflight, vq, results>>
            ELSE /\ ev' = m
                 /\ evstate' = "dispatched"
                 /\ inflight' = Subtasks
                 /\ vq' = 1
                 /\ results' = NoResults
                 /\ pc' = "gather"
                 /\ UNCHANGED running
    /\ UNCHANGED <<kc, dbvars, sd>>
    /\ UNCHANGED othervars

\* the message iterator ends because the broker client was stopped
PullEnd ==
    /\ pc = "pull"
    /\ kc = "closed"
    /\ EnterFinally
    /\ UNCHANGED <<kc, evstate, dbvars, now, pulled, sd>>
    /\ UNCHANGED othervars

\* a message arrives whose bytes the value_deserializer cannot decode
\* (kafka_service.py line 80: json.loads(v.decode('utf-8'))): the error is
\* raised by the iterator, at line 57 and so outside the try of lines 61-65;
\* the outer handler logs it and finally runs stop()
PullUndecodable ==
    /\ pc = "pull"
    /\ kc = "open"
    /\ pulled < MaxEvents
    /\ pulled' = pulled + 1
    /\ now' = now + 1
    /\ EnterFinally
    /\ evstate' = "undecodable"
    /\ UNCHANGED <<kc, dbvars, sd>>
    /\ UNCHANGED othervars

\* the message iterator raises (broker unavailable): outer handler, finally
PullError ==
    /\ pc = "pull"
    /\ kc = "open"
    /\ EnterFinally
    /\ UNCHANGED <<kc, evstate, dbvars, now, pulled, sd>>
    /\ UNCHANGED othervars

\* one of the three Gemini subtasks (kid summary, pro summary, term
\* extraction) returns
GeminiReturn ==
    /\ pc = "gather"
    /\ \E t \in inflight \ {"veracity"} : inflight' = inflight \ {t}
    /\ UNCHANGED <<pc, running, kc, ev, evstate, vq, results, dbvars, now,
                   pulled, sd>>
    /\ UNCHANGED othervars

\* the title query of the veracity subtask returns: the subtask either issues
\* the fallback query (line 160) or returns
VeracityPrimaryReturn ==
    /\ pc = "gather"
    /\ "veracity" \in inflight
    /\ vq = 1
    /\ \E o \in CheckClaimOutcomes :
         IF needs_fallback(o, ev.content)
         THEN /\ vq' = 2
              /\ UNCHANGED inflight
         ELSE /\ inflight' = inflight \ {"veracity"}
              /\ UNCHANGED vq
    /\ UNCHANGED <<pc, running, kc, ev, evstate, results, dbvars, now,
                   pulled, sd>>
    /\ UNCHANGED othervars

\* the fallback query returns, and with it the veracity subtask
VeracityFallbackReturn ==
    /\ pc = "gather"
    /\ "veracity" \in inflight
    /\ vq = 2
    /\ inflight' = inflight \ {"veracity"}
    /\ UNCHANGED <<pc, running, kc, ev, evstate, vq, results, dbvars, now,
                   pulled, sd>>
    /\ UNCHANGED othervars

\* what the last query of the veracity subtask can have answered: after one
\* query anything that asks for no fallback, after two anything
LastQueryOutcomes(queries, content) ==
    IF queries = 1
    THEN { o \in CheckClaimOutcomes : ~needs_fallback(o, content) }
    ELSE CheckClaimOutcomes

\* the four values asyncio.gather returns, each through its wrapper. (The
\* wrappers catch every Exception, so lines 111-122 find none to replace.)
SummaryValues == { generate_summary(o) : o \in SummaryOutcomes }
JargonValues == { extract_jargon(o) : o \in JargonOutcomes }
VeracityValues(queries, content) ==
    { check_veracity(o) : o \in LastQueryOutcomes(queries, content) }

Gathered(queries, content) ==
    [kid : SummaryValues, pro : SummaryValues, jargon : JargonValues,
     veracity : VeracityValues(queries, content)]

\* variant of _save_to_database that closes the session at the end of the
\* try body only, without the finally of lines 253-254
close_session_at_end(open, outcome) ==
    IF outcome = "committed" THEN open - 1 ELSE open

\* lines 253-254: finally db.close(), on the way out of _save_to_database
\* whether it commits, returns at line 186 or re-raises at line 252
close_session(open, outcome) == open - 1

\* line 178: db = SessionLocal()
open_session(open) == open + 1

\* how process_article ends, after _save_to_database
persist_state(outcome) ==
    CASE outcome = "committed" -> "persisted"
      [] outcome = "notfound" -> "notfound"
      [] OTHER -> "failed"

\* variant of gather_done: gather returns with the first subtask that does
gather_first(fl) == fl # Subtasks

\* line 102: asyncio.gather returns when every awaitable has returned
gather_done(fl) == fl = {}

\* gather returns (all four subtasks are done), _save_to_database runs, and
\* the loop goes back to awaiting a message
Persist ==
    /\ pc = "gather"
    /\ gather_done(inflight)
    /\ \E r \in Gathered(vq, ev.content) :
       \E failAt \in FailPoints(store, ev.id, r.kid, r.pro, r.jargon) :
         LET d == save_to_database(store, ev.id, r.kid, r.pro, r.jargon,
                                   r.veracity, now, failAt)
         IN  /\ results' = r
             /\ articles' = d.store.articles
             /\ summaries' = d.store.summaries
             /\ jargon' = d.store.jargon
             /\ dbopen' = close_session(open_session(dbopen), d.outcome)
             /\ evstate' = persist_state(d.outcome)
             /\ pc' = loop_next(d.outcome)
             /\ running' = IF pc' = "pull" THEN running ELSE FALSE
    /\ UNCHANGED <<kc, ev, inflight, vq, now, pulled, sd>>
    /\ UNCHANGED othervars

\* variant of kafka_stop that closes nothing
kafka_stop_skip(k) == k

\* variant of kafka_stop that drops a client it finds closed, as if none had
\* ever been built
kafka_stop_forget(k) == IF k \in {"none", "closed"} THEN "none" ELSE "closed"

\* KafkaConsumerService.stop: closes the client if there is one
kafka_stop(k) == IF k = "none" THEN "none" ELSE "closed"

\* the stop() called by finally completes; start() returns
StopDone ==
    /\ pc = "stopping"
    /\ kc' = kafka_stop(kc)
    /\ pc' = "done"
    /\ UNCHANGED <<running, evvars, dbvars, now, pulled, sd>>
    /\ UNCHANGED othervars

(***************************************************************************)
(* The callers of AINewsConsumer.stop                                      *)
(***************************************************************************)
ShutdownPaths == {"direct", "lifespan", "signal"}

\* stop() up to its await: running = False. The caller is a direct caller,
\* the lifespan shutdown of main.py or shutdown() of consumer_runner.py;
\* stop() does the same for each, so the caller is recorded when stop()
\* returns to it.
StopCall ==
    /\ sd.pc = "idle"
    /\ pc # "init"
    /\ sd' = [sd EXCEPT !.pc = "closing"]
    /\ running' = FALSE
    /\ UNCHANGED <<pc, kc, evvars, dbvars, now, pulled>>
    /\ UNCHANGED othervars

\* KafkaConsumerService.stop returns to stop(), and stop() to its caller:
\* a direct caller is done, the other two go on to cancel the task
StopClose ==
    /\ sd.pc = "closing"
    /\ kc' = kafka_stop(kc)
    /\ \E p \in ShutdownPaths :
         sd' = [path |-> p, pc |-> IF p = "direct" THEN "done" ELSE "cancel"]
    /\ UNCHANGED <<pc, running, evvars, dbvars, now, pulled>>
    /\ UNCHANGED othervars

\* consumer_task.cancel() (main.py line 57) or task.cancel() on every other
\* task (consumer_runner.py lines 34-36): CancelledError is raised at the
\* await the task is suspended in. It is no Exception, so neither handler of
\* start() catches it; finally runs stop().
Cancel ==
    /\ sd.pc = "cancel"
    /\ sd' = [sd EXCEPT !.pc = "done"]
    /\ CASE pc \in {"connecting", "pull"} ->
              /\ EnterFinally
              /\ UNCHANGED evstate
         [] pc = "gather" ->
              /\ EnterFinally
              /\ evstate' = "cancelled"
         [] pc = "stopping" ->
              /\ pc' = "done"
              /\ UNCHANGED <<running, evvars>>
         [] OTHER ->
              UNCHANGED <<pc, running, evvars>>
    /\ UNCHANGED <<kc, dbvars, now, pulled>>
    /\ UNCHANGED othervars

\* main() of consumer_runner.py, lines 67-68: when start() has returned (or
\* was cancelled), finally calls stop() once more
RunnerFinally ==
    /\ pc = "done"
    /\ running' = FALSE
    /\ kc' = kafka_stop(kc)
    /\ pc' = "exited"
    /\ UNCHANGED <<evvars, dbvars, now, pulled, sd>>
    /\ UNCHANGED othervars

Next ==
    \/ Start
    \/ ConnectOk
    \/ ConnectFail
    \/ Pull
    \/ PullEnd
    \/ PullUndecodable
    \/ PullError
    \/ GeminiReturn
    \/ VeracityPrimaryReturn
    \/ VeracityFallbackReturn
    \/ Persist
    \/ StopDone
    \/ StopCall
    \/ StopClose
    \/ Cancel
    \/ RunnerFinally

Spec == Init /\ [][Next]_vars

(***************************************************************************)
(* Properties                                                              *)
(***************************************************************************)
\* the step in which gather returns and _save_to_database runs: results'
\* holds the gathered values, evstate' how the persistence pass ended
PersistStep ==
    /\ evstate = "dispatched"
    /\ evstate' \in {"persisted", "notfound", "failed"}

\* a message is decoded and delivered to a running loop
DeliverStep ==
    /\ pc = "pull"
    /\ pulled' = pulled + 1
    /\ running
    /\ evstate' # "undecodable"

SummaryRows(rows, article_id, mode) ==
    SelectSeq(rows, LAMBDA r : r.article_id = article_id /\ r.mode = mode)

JargonRows(rows, article_id) ==
    SelectSeq(rows, LAMBDA r : r.article_id = article_id)

HasSignal(vd) == vd.veracity_score # NoScore \/ vd.claims # <<>>

\* C1: an event whose id or content is missing or empty writes no record,
\* raises nothing (the loop does not leave its try block) and leaves the
\* loop awaiting the next message, with no subtask started.
C1_InvalidEventDropped ==
    [][ (DeliverStep /\ (ev'.id = "" \/ ev'.content = ""))
          => /\ articles' = articles
             /\ summaries' = summaries
             /\ jargon' = jargon
             /\ evstate' = "dropped"
             /\ inflight' = {}
             /\ pc' = "pull"
             /\ running' ]_vars

\* an event with an id and no content was dropped and the loop awaits the
\* next message
C1_Witness ==
    /\ evstate = "dropped"
    /\ ev.id = "a1"
    /\ ev.content = ""
    /\ pc = "pull"
    /\ running
    /\ kc = "open"
    /\ pulled < MaxEvents

\* the subtasks whose gathered value is the neutral default of a failure:
\* None for a summary, the empty list for the terms, the error result for
\* the veracity check
FailedSubtasks(r) ==
    (IF r.kid = None THEN {"kid"} ELSE {})
      \cup (IF r.pro = None THEN {"pro"} ELSE {})
      \cup (IF r.jargon = <<>> THEN {"jargon"} ELSE {})
      \cup (IF r.veracity.status = "error" THEN {"veracity"} ELSE {})

\* the rows an extraction result stands for
ProducedRows(article_id, jargon_list) ==
    LET items == SelectSeq(jargon_list,
                     LAMBDA it : it.isdict /\ it.term # Missing /\ it.term # "")
    IN  [i \in 1..Len(items) |->
            [article_id |-> article_id,
             term |-> items[i].term,
             definition |-> IF items[i].definition = Missing
                            THEN "" ELSE items[i].definition,
             difficulty |-> IF items[i].difficulty = Missing
                            THEN "intermediate" ELSE items[i].difficulty]]

\* the summary of mode m gathered in this step is the stored one
SummaryCommitted(m) ==
    LET rows == SummaryRows(summaries', ev.id, m) IN
    /\ Len(rows) = 1
    /\ rows[1].summary = results'[m]
    /\ rows[1].generated_at = now

SummaryUntouched(m) ==
    SummaryRows(summaries', ev.id, m) = SummaryRows(summaries, ev.id, m)

\* C2: in a persistence pass that commits, with exactly one subtask failed,
\* the results of the other three subtasks are stored (the summary texts,
\* the extracted terms, the veracity score and claim list) and the record
\* of the failed subtask is as it was; the loop goes on.
C2_OthersCommitted ==
    [][ (PersistStep /\ evstate' = "persisted"
           /\ Cardinality(FailedSubtasks(results')) = 1)
          => /\ \A m \in {"kid", "pro"} :
                  /\ results'[m] = None => SummaryUntouched(m)
                  /\ (results'[m] # None /\ results'[m] # "")
                        => SummaryCommitted(m)
             /\ IF results'.jargon = <<>>
                THEN JargonRows(jargon', ev.id) = JargonRows(jargon, ev.id)
                ELSE JargonRows(jargon', ev.id)
                        = ProducedRows(ev.id, results'.jargon)
             /\ IF results'.veracity.status = "error"
                THEN articles'[ev.id] = articles[ev.id]
                ELSE HasSignal(results'.veracity)
                       => /\ articles'[ev.id].veracity_score
                               = results'.veracity.veracity_score
                          /\ articles'[ev.id].fact_check_claims
                               = results'.veracity.claims
             /\ pc' = "pull" ]_vars

\* C3: persisting a non-empty summary for a key (article_id, mode) that
\* already has a record leaves exactly one record for the key, holding the
\* text and the timestamp of this (the latest) write.
C3_UpsertLatest ==
    [][ (PersistStep /\ evstate' = "persisted")
          => \A m \in {"kid", "pro"} :
               (/\ results'[m] # None
                /\ results'[m] # ""
                /\ Len(SummaryRows(summaries, ev.id, m)) >= 1)
                  => SummaryCommitted(m) ]_vars

\* the kid record of a1 was added before its pro record, which dates from
\* time 1, and now holds the text and time of the second pass
C3_Witness ==
    /\ evstate = "persisted"
    /\ now = 2
    /\ results.kid = "s2"
    /\ Len(summaries) = 4
    /\ summaries[3] = [article_id |-> "a1", mode |-> "kid",
                       summary |-> "s2", generated_at |-> 2]
    /\ summaries[4].mode = "pro"
    /\ summaries[4].generated_at = 1

\* C4: the store holds at most one summary record per (article_id, mode).
C4_OneSummaryPerKey ==
    \A a \in DbArticleIds \cup EventIds, m \in {"kid", "pro"} :
        Len(SummaryRows(summaries, a, m)) <= 1

\* two passes for a1 have written its pro summary (added in the first pass,
\* before the kid record, and dated by the second), next to the rows of a0
C4_Witness ==
    /\ Len(summaries) = 4
    /\ summaries[1].article_id = "a0"
    /\ summaries[3].article_id = "a1"
    /\ summaries[3].mode = "pro"
    /\ summaries[3].generated_at = 2
    /\ summaries[4].mode = "kid"
    /\ summaries[4].generated_at = 2

\* C5: when term extraction fails or yields nothing (the gathered list is
\* empty), the stored jargon rows after the event are those before it.
C5_FailedExtractionKeepsTerms ==
    [][ (PersistStep /\ results'.jargon = <<>>) => jargon' = jargon ]_vars

\* an article with stored terms went through a committed pass whose
\* extraction failed
C5_Witness ==
    /\ evstate = "persisted"
    /\ results.jargon = <<>>
    /\ Len(JargonRows(jargon, ev.id)) >= 1
    /\ (Truthy(results.kid) \/ Truthy(results.pro))

\* C6: after a persistence pass the jargon rows of the article are exactly
\* those stored before, or exactly those the extraction produced; the rows
\* of every other article are as before.
C6_ReplaceOrUntouched ==
    [][ PersistStep
          => /\ \/ JargonRows(jargon', ev.id) = JargonRows(jargon, ev.id)
                \/ JargonRows(jargon', ev.id)
                      = ProducedRows(ev.id, results'.jargon)
             /\ \A a \in DbArticleIds \ {ev.id} :
                    JargonRows(jargon', a) = JargonRows(jargon, a) ]_vars

\* the second pass for a1 replaced its terms by the one valid item of a
\* two-item list; the rows of a0 are in place
C6_Witness ==
    /\ evstate = "persisted"
    /\ pulled = 2
    /\ ev.id = "a1"
    /\ results.jargon = <<NotDict, T2>>
    /\ Len(JargonRows(jargon, "a1")) = 1
    /\ JargonRows(jargon, "a1")[1].term = "t2"
    /\ JargonRows(jargon, "a0") = PriorJargon

\* C7: a persistence pass changes the stored veracity assessment only if
\* the gathered veracity result has a score or a non-empty claim list, and
\* then only that of the event's article.
C7_VeracityGuard ==
    [][ PersistStep
          => /\ articles' # articles => HasSignal(results'.veracity)
             /\ \A a \in DbArticleIds \ {ev.id} : articles'[a] = articles[a]
       ]_vars

\* a committed pass with a failed check left the stored score 0 in place
C7_Witness ==
    /\ evstate = "persisted"
    /\ ev.id = "a1"
    /\ results.veracity = ErrorResult
    /\ articles[ev.id].veracity_score = 0

\* C8: when a statement of the persistence pass raises (process_article
\* ends with the error of _save_to_database), none of the event's writes is
\* stored and every stored row is as before.
C8_RollbackAll ==
    [][ (PersistStep /\ evstate' = "failed")
          => /\ articles' = articles
             /\ summaries' = summaries
             /\ jargon' = jargon ]_vars

\* a pass with all four results to write failed, and a1 has no row
C8_Witness ==
    /\ evstate = "failed"
    /\ ev.id = "a1"
    /\ Truthy(results.kid)
    /\ Truthy(results.pro)
    /\ results.jargon = <<T1>>
    /\ results.veracity = FalseResult
    /\ summaries = PriorSummaries
    /\ jargon = PriorJargon
    /\ articles = PriorArticles

\* C9: the step in which the persistence pass fails leaves the loop awaiting
\* the next message, with running and the broker client unchanged.
C9_LoopSurvivesPersistenceError ==
    [][ (evstate = "dispatched" /\ evstate' = "failed")
          => /\ pc' = "pull"
             /\ running' = running
             /\ kc' = kc ]_vars

\* after a failed pass the loop is running and can take the next message
C9_Witness ==
    /\ evstate = "failed"
    /\ pc = "pull"
    /\ running
    /\ kc = "open"
    /\ pulled = 1
    /\ sd.pc = "idle"

\* C10: once stop() has been called, an event that is in the pipeline stays
\* there until its persistence pass has resolved (committed, skipped or
\* rolled back), whichever shutdown path called stop().
C10_StopKeepsInflightEvent ==
    [][ (evstate = "dispatched" /\ sd.pc # "idle")
          => evstate' \in {"dispatched", "persisted", "notfound", "failed"}
       ]_vars

\* C11: once stop() has been called, a message that arrives starts nothing:
\* no subtask is dispatched for it and no row is written for it; the only
\* event that can still be in the pipeline is the one that was there when
\* stop() was called.
C11_NoNewEventAfterStop ==
    [][ sd.pc # "idle"
          => /\ pulled' # pulled
                  => /\ inflight' = {}
                     /\ pc' # "gather"
                     /\ evstate' # "dispatched"
                     /\ articles' = articles
                     /\ summaries' = summaries
                     /\ jargon' = jargon
             /\ evstate' = "dispatched"
                  => /\ evstate = "dispatched"
                     /\ ev' = ev
                     /\ pulled' = pulled ]_vars

\* a first event was persisted, stop() was called, and the message that
\* arrived next was left unprocessed
C11_Witness ==
    /\ evstate = "refused"
    /\ sd.pc # "idle"
    /\ pulled = 2
    /\ pc = "stopping"
    /\ summaries # PriorSummaries

\* a call of AINewsConsumer.stop() returns to its caller: the shutdown path,
\* the finally of start(), or the finally of the runner's main()
StopReturns ==
    \/ sd.pc = "closing" /\ sd'.pc # "closing"
    \/ pc = "stopping" /\ pc' = "done" /\ sd' = sd
    \/ pc = "done" /\ pc' = "exited"

MaxSessions == 3        \* client objects built in a run
MaxSent == 2            \* messages acknowledged in a run

Topics == {"news-raw", "news-summarized", "user-events"}

Session(owner, state) == [owner |-> owner, state |-> state]

\* start(), lines 19-22 and 76-81: a new client object replaces the one held
client_start(ss, owner) == Append(ss, Session(owner, "starting"))

\* stop(), lines 28-29 and 87-88: the held client, if any, is stopped
client_stop(h, ss) ==
    IF h = 0 THEN ss ELSE [ss EXCEPT ![h].state = "closed"]

\* AIOKafkaProducer.send_and_wait on a client in the given state
send_and_wait(state) == IF state = "open" THEN "ok" ELSE "KafkaError"

\* variant of publish without the guard on the held client
publish_unguarded(h, ss) == IF h = 0 THEN "ok" ELSE send_and_wait(ss[h].state)

\* publish_raw_article, publish_summarized_article, publish_user_event:
\* RuntimeError("Producer not started") when no client is held, else the
\* outcome of send_and_wait
publish(h, ss) ==
    IF h = 0 THEN "RuntimeError" ELSE send_and_wait(ss[h].state)

\* consume(): RuntimeError("Consumer not started") when no client is held,
\* else the next message of the client; the iterator of a client that is
\* closed ends, that of a client whose start failed raises
consume(h, ss) ==
    IF h = 0 THEN "RuntimeError"
    ELSE CASE ss[h].state = "open" -> "ok"
           [] ss[h].state = "closed" -> "end"
           [] OTHER -> "KafkaError"

Call(op, client, outcome) == [op |-> op, client |-> client, outcome |-> outcome]

\* KafkaProducerService.start up to its await
ProducerStart ==
    /\ Len(sessions) < MaxSessions
    /\ sessions' = client_start(sessions, "producer")
    /\ producer' = Len(sessions')
    /\ UNCHANGED <<consumer, call, sent>>
    /\ UNCHANGED <<consumervars, veracityvars, scorervars, factvars, apivars>>

\* KafkaConsumerService.start up to its await
ConsumerStart ==
    /\ Len(sessions) < MaxSessions
    /\ sessions' = client_start(sessions, "consumer")
    /\ consumer' = Len(sessions')
    /\ UNCHANGED <<producer, call, sent>>
    /\ UNCHANGED <<consumervars, veracityvars, scorervars, factvars, apivars>>

\* the awaited start() of a client succeeds: its session is open
SessionOpens ==
    /\ \E i \in 1..Len(sessions) :
         /\ sessions[i].state = "starting"
         /\ sessions' = [sessions EXCEPT ![i].state = "open"]
         /\ call' = Call("start", sessions[i].owner, "ok")
    /\ UNCHANGED <<producer, consumer, sent>>
    /\ UNCHANGED <<consumervars, veracityvars, scorervars, factvars, apivars>>

\* the awaited start() of a client raises: start() of the service raises
\* too, and the service keeps holding the client
SessionFails ==
    /\ \E i \in 1..Len(sessions) :
         /\ sessions[i].state = "starting"
         /\ sessions' = [sessions EXCEPT ![i].state = "failed"]
         /\ call' = Call("start", sessions[i].owner, "KafkaError")
    /\ UNCHANGED <<producer, consumer, sent>>
    /\ UNCHANGED <<consumervars, veracityvars, scorervars, factvars, apivars>>

\* KafkaProducerService.stop
ProducerStop ==
    /\ sessions' = client_stop(producer, sessions)
    /\ call' = Call("stop", "producer", "ok")
    /\ UNCHANGED <<producer, consumer, sent>>
    /\ UNCHANGED <<consumervars, veracityvars, scorervars, factvars, apivars>>

\* KafkaConsumerService.stop
ConsumerStop ==
    /\ sessions' = client_stop(consumer, sessions)
    /\ call' = Call("stop", "consumer", "ok")
    /\ UNCHANGED <<producer, consumer, sent>>
    /\ UNCHANGED <<consumervars, veracityvars, scorervars, factvars, apivars>>

\* one of the three publish methods, on any topic
Publish ==
    /\ \E topic \in Topics :
         LET outcome == publish(producer, sessions) IN
         /\ outcome = "ok" => sent < MaxSent
         /\ call' = Call("publish", "producer", outcome)
         /\ sent' = IF outcome = "ok" THEN sent + 1 ELSE sent
    /\ UNCHANGED <<producer, consumer, sessions>>
    /\ UNCHANGED <<consumervars, veracityvars, scorervars, factvars, apivars>>

\* consume() is iterated for its next message
Consume ==
    /\ call' = Call("consume", "consumer", consume(consumer, sessions))
    /\ UNCHANGED <<producer, consumer, sessions, sent>>
    /\ UNCHANGED <<consumervars, veracityvars, scorervars, factvars, apivars>>

BrokerNext ==
    \/ ProducerStart
    \/ ConsumerStart
    \/ SessionOpens
    \/ SessionFails
    \/ ProducerStop
    \/ ConsumerStop
    \/ Publish
    \/ Consume

BrokerSpec == Init /\ [][BrokerNext]_vars

OpenSessions(owner) ==
    { i \in 1..Len(sessions) :
        sessions[i].owner = owner /\ sessions[i].state = "open" }

Starting(owner) ==
    { i \in 1..Len(sessions) :
        sessions[i].owner = owner /\ sessions[i].state = "starting" }

\* C13: for the producer and the consumer client alike: when a start() has
\* completed and no start() is pending, exactly one session of the client is
\* open, however many times start() was called; when a stop() has completed,
\* none is.
C13_StartStopIdempotent ==
    \A owner \in {"producer", "consumer"} :
        /\ (call = Call("start", owner, "ok") /\ Starting(owner) = {})
              => Cardinality(OpenSessions(owner)) = 1
        /\ call = Call("stop", owner, "ok")
              => OpenSessions(owner) = {}

\* a call of a publish method returns or raises
PublishStep == call'.op = "publish" /\ <<call, sent>>' # <<call, sent>>

\* consume() is asked for a message
ConsumeStep == call'.op = "consume" /\ call' # call

C15_BrokerFailureStopsConsumer ==
    /\ [][ (/\ sd.pc = "idle"
            /\ pc \in {"connecting", "pull"}
            /\ pc' \notin {"connecting", "pull", "gather"})
             => (pc' = "stopping" /\ ~running') ]_vars
    /\ [](pc \in {"done", "exited"} => (~running /\ kc = "closed"))
    /\ [][ (pc \in {"stopping", "done", "exited"})
             => (/\ pc' \in {"stopping", "done", "exited"}
                 /\ ~running'
                 /\ kc' \in {kc, "closed"}
                 /\ pulled' = pulled
                 /\ articles' = articles
                 /\ summaries' = summaries
                 /\ jargon' = jargon) ]_vars

\* one event was persisted, then the message iterator raised: nobody called
\* stop() from outside, start() has returned, the client is closed
C15_Witness ==
    /\ pc = "done"
    /\ sd.pc = "idle"
    /\ pulled = 1
    /\ evstate = "persisted"
    /\ ~running
    /\ kc = "closed"

\* C16: a failure that concerns one message only (an invalid event, a payload
\* that cannot be decoded or is no object, a failed subtask, a failed
\* persistence pass) leaves the loop running: the step that takes a message
\* from the broker into a running loop, and the step that ends an event's
\* persistence pass, leave running set and the loop in its body.
C16_OnlyBrokerFailureEndsLoop ==
    /\ [][ (pc = "pull" /\ running /\ pulled' = pulled + 1)
             => (running' /\ pc' \in {"pull", "gather"}) ]_vars
    /\ [][ PersistStep => (running' = running /\ pc' = "pull") ]_vars

\* the same, for every message but one that cannot be decoded
DecodedMessagesKeepLoop ==
    /\ [][ (pc = "pull" /\ running /\ pulled' = pulled + 1
              /\ evstate' # "undecodable")
             => (running' /\ pc' \in {"pull", "gather"}) ]_vars
    /\ [][ PersistStep => (running' = running /\ pc' = "pull") ]_vars

\* C17: at most four subtasks, each with one outstanding request, are in
\* flight, and only for the one event that is dispatched; a message is taken
\* from the broker only when no event is dispatched and nothing is in flight.
C17_OneEventFourRequests ==
    /\ [](/\ Cardinality(inflight) <= 4
          /\ inflight # {} => (pc = "gather" /\ evstate = "dispatched")
          /\ vq \in 0..2)
    /\ [][ (pulled' # pulled)
             => (evstate # "dispatched" /\ inflight = {}) ]_vars

\* the second event has all four subtasks in flight, after the first was
\* persisted
C17_Witness ==
    /\ Cardinality(inflight) = 4
    /\ evstate = "dispatched"
    /\ pulled = 2
    /\ summaries # PriorSummaries

\* C18: the persistence pass of an event runs only when none of its four
\* subtasks is still in flight, rows are written by that pass only, and a
\* message is taken from the broker only when the persistence pass of the
\* event before it has ended (committed, skipped or rolled back) or the
\* event never reached one.
C18_PersistAfterAllThenNext ==
    /\ [][ PersistStep => (inflight = {} /\ inflight' = {}) ]_vars
    /\ [][ (<<articles, summaries, jargon>>' # <<articles, summaries, jargon>>)
             => (PersistStep /\ inflight = {}) ]_vars
    /\ [][ (pulled' = pulled + 1)
             => (/\ pc = "pull"
                 /\ evstate \in {"none", "dropped", "rejected", "persisted",
                                 "notfound", "failed"}) ]_vars

\* the second event was persisted after its veracity subtask had issued both
\* queries; its pass wrote the rows of a1
C18_Witness ==
    /\ evstate = "persisted"
    /\ pulled = 2
    /\ vq = 2
    /\ inflight = {}
    /\ ev.id = "a1"
    /\ Len(SummaryRows(summaries, "a1", "kid")) = 1
    /\ pc = "pull"

(***************************************************************************)
(* AINewsConsumer._check_veracity on its own, with texts as sequences of   *)
(* characters                                                              *)
(***************************************************************************)
QueryLimit == 200       \* [:200] of line 161

Min(S) == CHOOSE x \in S : \A y \in S : x <= y

\* a text of n characters "x" with a "." at position dot (none if dot = 0)
Filler(n, dot) == [i \in 1..n |-> IF i = dot THEN "." ELSE "x"]

\* the value None of a title that the event does not carry (line 86), written
\* as a sequence that no sequence of characters equals
NoText == << None >>

VTitles == { NoText, <<>>, <<"t">>, Filler(QueryLimit + 1, 0) }

VContents ==
    { <<>>,
      <<"a">>,
      <<"a", ".", "b">>,
      <<".", "a">>,
      <<"a", "b", ".">>,
      Filler(QueryLimit + 1, 0),
      Filler(QueryLimit + 1, QueryLimit),
      Filler(QueryLimit + 50, QueryLimit + 30) }

\* further results of factcheck_service.check_claim (factcheck.py lines 39, 57)
NoApiKeyResult == [veracity_score |-> NoScore, claims |-> <<>>, status |-> "no_api_key"]
AccessDeniedResult == [veracity_score |-> NoScore, claims |-> <<>>, status |-> "access_denied"]

AllCheckClaimOutcomes ==
    CheckClaimOutcomes
      \cup { [kind |-> "value", val |-> NoApiKeyResult],
             [kind |-> "value", val |-> AccessDeniedResult] }

\* the status an answer carries ("raised" when check_claim raised)
answer_status(o) == IF o.kind = "raise" THEN "raised" ELSE o.val.status

\* str.split('.')[0]: the text before the first ".", found by scanning the
\* left half of the text and, if it has no ".", the right half
RECURSIVE split_first(_)
split_first(text) ==
    IF Len(text) = 0 THEN <<>>
    ELSE IF Len(text) = 1 THEN (IF text[1] = "." THEN <<>> ELSE text)
    ELSE LET half == Len(text) \div 2
             left == split_first(SubSeq(text, 1, half))
         IN  IF Len(left) < half
             THEN left
             ELSE left \o split_first(SubSeq(text, half + 1, Len(text)))

\* text[:n]
truncate(text, n) == SubSeq(text, 1, IF Len(text) < n THEN Len(text) ELSE n)

\* line 161: content.split('.')[0][:200]
first_sentence(text) == truncate(split_first(text), QueryLimit)

\* factcheck.py line 47: claim_text[:200]
ApiQueryLimit == 200

\* variant of factcheck.py line 47 that sends the whole text
api_query_whole(text) == text

\* factcheck.py line 47: the query parameter of the request
api_query(text) == truncate(text, ApiQueryLimit)

\* what a call of check_claim sends to the claim search: nothing without an
\* API key (factcheck.py lines 37-39), nothing when slicing the text raises
\* (line 47 with a title that is None), else one request
sent_by(key, text) ==
    IF key /\ text # NoText THEN << api_query(text) >> ELSE <<>>

\* the truth value of a text, in the terms of Contents
content_class(text) == IF text = <<>> THEN "" ELSE "c"

VeracityInit ==
    /\ ApiIdle
    /\ ConsumerIdle
    /\ BrokerIdle
    /\ ScorerIdle
    /\ FactIdle
    /\ vpc = "idle"
    /\ vtitle \in VTitles
    /\ vcontent \in VContents
    /\ vqueries = <<>>
    /\ vanswers = <<>>
    /\ vresult = ErrorResult
    /\ vkey \in BOOLEAN
    /\ vsent = <<>>

\* what check_claim can answer to a text: without an API key the no_api_key
\* result, for a title that is None the error result
answers_for(key, text) ==
    IF ~key THEN { [kind |-> "value", val |-> NoApiKeyResult] }
    ELSE IF text = NoText THEN { [kind |-> "value", val |-> ErrorResult] }
    ELSE AllCheckClaimOutcomes \ { [kind |-> "value", val |-> NoApiKeyResult] }

\* variant of line 162 that keeps the title query's result when the fallback
\* query found nothing usable
fallback_result_if_success(primary, fallback) ==
    IF fallback.status = "success" THEN fallback ELSE primary

\* line 162: result is rebound to what the fallback query returned
fallback_result(primary, fallback) == fallback

\* line 157: check_claim(title) is called and awaited
VCall ==
    /\ vpc = "idle"
    /\ vqueries' = <<vtitle>>
    /\ vsent' = sent_by(vkey, vtitle)
    /\ vpc' = "primary"
    /\ UNCHANGED <<vtitle, vcontent, vanswers, vresult, vkey>>
    /\ UNCHANGED <<consumervars, brokervars, scorervars, factvars, apivars>>

\* the title query is answered: lines 160-162 issue the fallback query, or
\* the result is returned (lines 164-167)
VPrimaryReturn ==
    /\ vpc = "primary"
    /\ \E o \in answers_for(vkey, vqueries[1]) :
         /\ vanswers' = Append(vanswers, answer_status(o))
         /\ IF needs_fallback(o, content_class(vcontent))
            THEN /\ vqueries' = Append(vqueries, first_sentence(vcontent))
                 /\ vsent' = vsent \o sent_by(vkey, first_sentence(vcontent))
                 /\ vpc' = "fallback"
                 /\ vresult' = o.val
            ELSE /\ vresult' = check_veracity(o)
                 /\ vpc' = "returned"
                 /\ UNCHANGED <<vqueries, vsent>>
    /\ UNCHANGED <<vtitle, vcontent, vkey>>
    /\ UNCHANGED <<consumervars, brokervars, scorervars, factvars, apivars>>

\* the fallback query is answered: its result is returned
VFallbackReturn ==
    /\ vpc = "fallback"
    /\ \E o \in answers_for(vkey, vqueries[2]) :
         /\ vanswers' = Append(vanswers, answer_status(o))
         /\ vresult' = IF o.kind = "raise"
                       THEN check_veracity(o)
                       ELSE fallback_result(vresult, check_veracity(o))
         /\ vpc' = "returned"
    /\ UNCHANGED <<vtitle, vcontent, vqueries, vkey, vsent>>
    /\ UNCHANGED <<consumervars, brokervars, scorervars, factvars, apivars>>

VeracityNext ==
    \/ VCall
    \/ VPrimaryReturn
    \/ VFallbackReturn

VeracitySpec == VeracityInit /\ [][VeracityNext]_vars

\* the text before the first "." of a text, cut to at most n characters
PrefixBeforeDot(text, n) ==
    LET dots == { i \in 1..Len(text) : text[i] = "." }
        before == IF dots = {} THEN Len(text) ELSE Min(dots) - 1
        len == IF before > n THEN n ELSE before
    IN  [i \in 1..len |-> text[i]]

\* C19: no call of the veracity subtask issues more than two claim queries,
\* the first with the title; when it has returned, it has issued a second
\* query exactly if the title query answered "no_matching_claims" and content
\* is not empty, and that query's text is the content before its first ".",
\* cut to 200 characters.
C19_OneFallback ==
    /\ Len(vqueries) <= 2
    /\ Len(vqueries) >= 1 => vqueries[1] = vtitle
    /\ vpc = "returned"
         => IF vanswers[1] = "no_matching_claims" /\ vcontent # <<>>
            THEN /\ Len(vqueries) = 2
                 /\ Len(vanswers) = 2
                 /\ vqueries[2] = PrefixBeforeDot(vcontent, 200)
            ELSE /\ Len(vqueries) = 1
                 /\ Len(vanswers) = 1

\* the title query found nothing and the fallback query was issued with the
\* first 200 characters of a content whose first "." comes later
C19_Witness ==
    /\ vpc = "returned"
    /\ vanswers[1] = "no_matching_claims"
    /\ Len(vcontent) = 250
    /\ Len(vqueries) = 2
    /\ Len(vqueries[2]) = 200

(***************************************************************************)
(* FactCheckService._rating_to_score on its own, with ratings as sequences *)
(* of characters                                                           *)
(***************************************************************************)
UpperCase == <<"A", "B", "C", "D", "E", "F", "G", "H", "I", "J", "K", "L", "M", "N", "O", "P", "Q", "R", "S", "T", "U", "V", "W", "X", "Y", "Z">>
LowerCase == <<"a", "b", "c", "d", "e", "f", "g", "h", "i", "j", "k", "l", "m", "n", "o", "p", "q", "r", "s", "t", "u", "v", "w", "x", "y", "z">>

\* str.lower() on one character
lower_char(c) ==
    IF \E i \in 1..Len(UpperCase) : UpperCase[i] = c
    THEN LowerCase[CHOOSE i \in 1..Len(UpperCase) : UpperCase[i] = c]
    ELSE c

\* rating.lower()
lower(text) == [i \in 1..Len(text) |-> lower_char(text[i])]

\* word in text: the word occurs in the text as a substring
occurs(word, text) ==
    \E i \in 1..(Len(text) - Len(word) + 1) :
        SubSeq(text, i, i + Len(word) - 1) = word

\* any(word in text for word in words)
any_in(words, text) == \E k \in 1..Len(words) : occurs(words[k], text)

\* line 117: "true", "accurate", "correct", "verified"
Words100 ==
    << <<"t", "r", "u", "e">>,
       <<"a", "c", "c", "u", "r", "a", "t", "e">>,
       <<"c", "o", "r", "r", "e", "c", "t">>,
       <<"v", "e", "r", "i", "f", "i", "e", "d">> >>

\* line 121: "mostly true", "mostly accurate", "largely true"
Words80 ==
    << <<"m", "o", "s", "t", "l", "y", " ", "t", "r", "u", "e">>,
       <<"m", "o", "s", "t", "l", "y", " ", "a", "c", "c", "u", "r", "a", "t", "e">>,
       <<"l", "a", "r", "g", "e", "l", "y", " ", "t", "r", "u", "e">> >>

\* line 125: "half true", "mixed", "partly", "partially"
Words50 ==
    << <<"h", "a", "l", "f", " ", "t", "r", "u", "e">>,
       <<"m", "i", "x", "e", "d">>,
       <<"p", "a", "r", "t", "l", "y">>,
       <<"p", "a", "r", "t", "i", "a", "l", "l", "y">> >>

\* line 129: "mostly false", "mostly inaccurate", "largely false"
Words20 ==
    << <<"m", "o", "s", "t", "l", "y", " ", "f", "a", "l", "s", "e">>,
       <<"m", "o", "s", "t", "l", "y", " ", "i", "n", "a", "c", "c", "u", "r", "a", "t", "e">>,
       <<"l", "a", "r", "g", "e", "l", "y", " ", "f", "a", "l", "s", "e">> >>

\* line 133: "false", "fake", "incorrect", "wrong", "pants on fire"
Words0 ==
    << <<"f", "a", "l", "s", "e">>,
       <<"f", "a", "k", "e">>,
       <<"i", "n", "c", "o", "r", "r", "e", "c", "t">>,
       <<"w", "r", "o", "n", "g">>,
       <<"p", "a", "n", "t", "s", " ", "o", "n", " ", "f", "i", "r", "e">> >>

\* line 137: "unverifiable", "unrated", "satire"
WordsExcluded ==
    << <<"u", "n", "v", "e", "r", "i", "f", "i", "a", "b", "l", "e">>,
       <<"u", "n", "r", "a", "t", "e", "d">>,
       <<"s", "a", "t", "i", "r", "e">> >>

\* variant of _rating_to_score that tests the more specific phrases first
rating_to_score_specific_first(text) ==
    LET rating_lower == lower(text) IN
    IF any_in(Words80, rating_lower) THEN 80
    ELSE IF any_in(Words20, rating_lower) THEN 20
    ELSE IF any_in(Words100, rating_lower) THEN 100
    ELSE IF any_in(Words50, rating_lower) THEN 50
    ELSE IF any_in(Words0, rating_lower) THEN 0
    ELSE NoScore

\* _rating_to_score, lines 114-140: the tests in the order of the code
rating_to_score(text) ==
    LET rating_lower == lower(text) IN
    IF any_in(Words100, rating_lower) THEN 100
    ELSE IF any_in(Words80, rating_lower) THEN 80
    ELSE IF any_in(Words50, rating_lower) THEN 50
    ELSE IF any_in(Words20, rating_lower) THEN 20
    ELSE IF any_in(Words0, rating_lower) THEN 0
    ELSE IF any_in(WordsExcluded, rating_lower) THEN NoScore
    ELSE NoScore

\* textual ratings a claim review can carry (textualRating, line 84): every
\* phrase of the table in some spelling, texts that match no row, each alone,
\* after a qualifier and before a remark
RatingCores ==
    { <<>>,
      <<"T", "r", "u", "e">>,
      <<"A", "C", "C", "U", "R", "A", "T", "E">>,
      <<"C", "o", "r", "r", "e", "c", "t">>,
      <<"v", "e", "r", "i", "f", "i", "e", "d">>,
      <<"M", "o", "s", "t", "l", "y", " ", "T", "r", "u", "e">>,
      <<"m", "o", "s", "t", "l", "y", " ", "a", "c", "c", "u", "r", "a", "t", "e">>,
      <<"L", "a", "r", "g", "e", "l", "y", " ", "t", "r", "u", "e">>,
      <<"H", "a", "l", "f", " ", "T", "r", "u", "e">>,
      <<"M", "i", "x", "e", "d">>,
      <<"p", "a", "r", "t", "l", "y">>,
      <<"P", "a", "r", "t", "i", "a", "l", "l", "y">>,
      <<"M", "o", "s", "t", "l", "y", " ", "F", "a", "l", "s", "e">>,
      <<"m", "o", "s", "t", "l", "y", " ", "i", "n", "a", "c", "c", "u", "r", "a", "t", "e">>,
      <<"l", "a", "r", "g", "e", "l", "y", " ", "f", "a", "l", "s", "e">>,
      <<"F", "a", "l", "s", "e">>,
      <<"F", "A", "K", "E">>,
      <<"i", "n", "c", "o", "r", "r", "e", "c", "t">>,
      <<"W", "r", "o", "n", "g">>,
      <<"P", "a", "n", "t", "s", " ", "o", "n", " ", "F", "i", "r", "e">>,
      <<"U", "n", "v", "e", "r", "i", "f", "i", "a", "b", "l", "e">>,
      <<"U", "n", "r", "a", "t", "e", "d">>,
      <<"S", "a", "t", "i", "r", "e">>,
      <<"M", "i", "s", "l", "e", "a", "d", "i", "n", "g">>,
      <<"t", "r", "u">>,
      <<"F", "o", "u", "r", " ", "P", "i", "n", "o", "c", "c", "h", "i", "o", "s">> }

RatingPrefixes ==
    { <<>>,
      <<"M", "o", "s", "t", "l", "y", " ">>,
      <<"H", "a", "l", "f", " ">>,
      <<"U", "n">>,
      <<"n", "o", "t", " ">> }

RatingSuffixes ==
    { <<>>,
      <<" ", "(", "m", "i", "x", "e", "d", ")">> }

Ratings ==
    { p \o c \o s : p \in RatingPrefixes, c \in RatingCores, s \in RatingSuffixes }

ScorerInit ==
    /\ ApiIdle
    /\ ConsumerIdle
    /\ BrokerIdle
    /\ VeracityIdle
    /\ FactIdle
    /\ rpc = "idle"
    /\ rating \in Ratings
    /\ score = NoScore

\* line 89: score = self._rating_to_score(rating)
ScoreRating ==
    /\ rpc = "idle"
    /\ score' = rating_to_score(rating)
    /\ rpc' = "scored"
    /\ UNCHANGED rating
    /\ UNCHANGED <<consumervars, brokervars, veracityvars, factvars, apivars>>

ScorerNext == ScoreRating

ScorerSpec == ScorerInit /\ [][ScorerNext]_vars

\* the table of ratings: rows in priority order, the last one excluded
RatingTable ==
    << [words |-> Words100, score |-> 100],
       [words |-> Words80, score |-> 80],
       [words |-> Words50, score |-> 50],
       [words |-> Words20, score |-> 20],
       [words |-> Words0, score |-> 0],
       [words |-> WordsExcluded, score |-> NoScore] >>

\* the rows of the table with a phrase that occurs in the lower-cased text
MatchingRows(text) ==
    { k \in 1..Len(RatingTable) :
        \E j \in 1..Len(RatingTable[k].words) :
            occurs(RatingTable[k].words[j], lower(text)) }

\* C20: the score of a rating is that of the first row of the table, in the
\* order 100, 80, 50, 20, 0, excluded, with a phrase that occurs in the
\* lower-cased rating; there is no score when that row is the excluded one
\* or when no row matches.
C20_FirstMatchingRow ==
    rpc = "scored"
      => score = IF MatchingRows(rating) = {}
                 THEN NoScore
                 ELSE RatingTable[Min(MatchingRows(rating))].score

\* "Mostly True (mixed)" matches the rows 100, 80 and 50 and scores 100
C20_Witness ==
    /\ rpc = "scored"
    /\ rating = <<"M", "o", "s", "t", "l", "y", " ", "T", "r", "u", "e", " ", "(", "m", "i", "x", "e", "d", ")">>
    /\ MatchingRows(rating) = {1, 2, 3}
    /\ score = 100

\* C21: a rating in which "mostly true", "mostly accurate" or "largely true"
\* occurs scores 80, "Pants on Fire" scores 0, and "Unrated" gets no score.
C21_MostlyTrueScores80 ==
    rpc = "scored"
      => /\ any_in(Words80, lower(rating)) => score = 80
         /\ rating = <<"P", "a", "n", "t", "s", " ", "o", "n", " ", "F", "i", "r", "e">>
              => score = 0
         /\ rating = <<"U", "n", "r", "a", "t", "e", "d">> => score = NoScore

\* the parts of C21 about "Pants on Fire" and "Unrated" alone
PantsOnFireAndUnrated ==
    rpc = "scored"
      => /\ rating = <<"P", "a", "n", "t", "s", " ", "o", "n", " ", "F", "i", "r", "e">>
              => score = 0
         /\ rating = <<"U", "n", "r", "a", "t", "e", "d">> => score = NoScore

(***************************************************************************)
(* FactCheckService.check_claim and _process_response (factcheck.py)       *)
(***************************************************************************)
\* the longest claims list a response carries here
MaxClaims == 6

\* line 81: claims[:5]
ClaimLimit == 5

\* textual ratings of the claim reviews of a response
RTrue == <<"T", "r", "u", "e">>
RMixed == <<"M", "i", "x", "e", "d">>
RFalse == <<"F", "a", "l", "s", "e">>

\* the claimReview list of a returned claim, as the ratings of its reviews:
\* none (the claim then has the rating "" and no score), one, or two of
\* which line 82 takes the first
ReviewLists == { <<>>, <<RTrue>>, <<RMixed>>, <<RFalse, RTrue>> }

\* the claims lists of a response with up to max claims: claim number i
\* carries the text i
ClaimLists(max) ==
    UNION { { [i \in 1..n |-> [text |-> i, claimReview |-> f[i]]] :
                f \in [1..n -> ReviewLists] } : n \in 0..max }

\* what a request can meet: no response at all (timeout, connection error),
\* a response with a status other than 200, or a 200 response whose body is
\* no JSON, a JSON object without "claims", or one with a claims list
HttpAnswers(max) ==
    { [kind |-> "neterror", code |-> 0, body |-> [kind |-> "none"]] }
      \cup { [kind |-> "http", code |-> c, body |-> [kind |-> "none"]] :
               c \in {403, 404, 500} }
      \cup { [kind |-> "http", code |-> 200, body |-> [kind |-> "invalid"]],
             [kind |-> "http", code |-> 200, body |-> [kind |-> "object", has_claims |-> FALSE, claims |-> <<>>]] }
      \cup { [kind |-> "http", code |-> 200, body |-> [kind |-> "object", has_claims |-> TRUE, claims |-> cl]] :
               cl \in ClaimLists(max) }

\* arguments of check_claim: the title of an event, which is None when the
\* event carries none (ai_consumer.py line 86), or a first sentence
ClaimTexts == { NoText, <<>>, <<"t">>, Filler(ApiQueryLimit + 1, 0) }

\* line 82-84: the textualRating of the first review, "" without a review
textual_rating(claim) ==
    IF claim.claimReview # <<>> THEN claim.claimReview[1] ELSE <<>>

\* lines 94-101: the entry appended for a claim (claimant, publisher and
\* review_url are carried along and play no part in the score)
processed_claim(claim) ==
    [claim_text |-> claim.text,
     rating |-> textual_rating(claim),
     score |-> rating_to_score(textual_rating(claim))]

\* variant of line 81 that processes every returned claim
top_claims_all(claims) == claims

\* line 81: claims[:5]
top_claims(claims) == truncate(claims, ClaimLimit)

\* lines 78-92: total_score and scored_count over the processed claims
RECURSIVE total_score(_)
total_score(processed) ==
    IF processed = <<>> THEN 0
    ELSE (IF Head(processed).score # NoScore THEN Head(processed).score ELSE 0)
           + total_score(Tail(processed))

scored_count(processed) ==
    Cardinality({ i \in 1..Len(processed) : processed[i].score # NoScore })

\* variant of round that cuts the fraction off
py_round_down(total, count) == total \div count

\* Python's round(total / count) for total >= 0, count > 0: the nearest
\* integer, the even one of the two when the mean lies halfway
py_round(total, count) ==
    LET q == total \div count
        r == total % count
    IN  IF 2 * r < count THEN q
        ELSE IF 2 * r > count THEN q + 1
        ELSE IF q % 2 = 0 THEN q ELSE q + 1

\* variant of line 104 that scores 0 when no claim was scored
veracity_score_zero(total, count) ==
    IF count > 0 THEN py_round(total, count) ELSE 0

\* line 104
veracity_score(total, count) ==
    IF count > 0 THEN py_round(total, count) ELSE NoScore

\* _process_response, lines 66-110, for a body that is a JSON object
process_response(data) ==
    LET claims == IF data.has_claims THEN data.claims ELSE <<>>
        top == top_claims(claims)
        processed_claims == [i \in 1..Len(top) |-> processed_claim(top[i])]
    IN  IF claims = <<>>
        THEN [veracity_score |-> NoScore, claims |-> <<>>, status |-> "no_matching_claims"]
        ELSE [veracity_score |-> veracity_score(total_score(processed_claims),
                                                scored_count(processed_claims)),
              claims |-> processed_claims,
              status |-> "success"]

Returned(val) == [outcome |-> "returned", val |-> val]
Raised == [outcome |-> "raised", val |-> ErrorResult]

\* lines 43-60: the request is answered; httpx raises when there is no
\* response, response.json() raises when the body is no JSON
handle_response(a) ==
    IF a.kind = "neterror" THEN Raised
    ELSE IF a.code = 200
         THEN IF a.body.kind = "object"
              THEN Returned(process_response(a.body))
              ELSE Raised
    ELSE IF a.code = 403 THEN Returned(AccessDeniedResult)
    ELSE Returned(ErrorResult)

\* variant of check_claim without the handler of lines 62-64
except_exception_none(r) == r

\* lines 62-64: except Exception returns the error result
except_exception(r) ==
    IF r.outcome = "raised" THEN Returned(ErrorResult) ELSE r

FactInit ==
    /\ ApiIdle
    /\ ConsumerIdle
    /\ BrokerIdle
    /\ VeracityIdle
    /\ ScorerIdle
    /\ fpc = "idle"
    /\ fkey \in BOOLEAN
    /\ ftext \in ClaimTexts
    /\ frequests = <<>>
    /\ fresponse = NoResponse
    /\ fresult = [outcome |-> "none", val |-> ErrorResult]

\* lines 37-39: no API key, the result is returned without a request
FNoKey ==
    /\ fpc = "idle"
    /\ ~fkey
    /\ fresult' = Returned(NoApiKeyResult)
    /\ fpc' = "returned"
    /\ UNCHANGED <<fkey, ftext, frequests, fresponse>>
    /\ UNCHANGED <<consumervars, brokervars, veracityvars, scorervars, apivars>>

\* lines 41-50: the request is built and sent; slicing a claim_text that is
\* None raises inside the try, before anything is sent
FRequest ==
    /\ fpc = "idle"
    /\ fkey
    /\ IF ftext = NoText
       THEN /\ fresult' = except_exception(Raised)
            /\ fpc' = "returned"
            /\ UNCHANGED frequests
       ELSE /\ frequests' = Append(frequests, api_query(ftext))
            /\ fpc' = "requested"
            /\ UNCHANGED fresult
    /\ UNCHANGED <<fkey, ftext, fresponse>>
    /\ UNCHANGED <<consumervars, brokervars, veracityvars, scorervars, apivars>>

\* lines 43-64: the request ends and check_claim returns
FAnswer ==
    /\ fpc = "requested"
    /\ \E a \in HttpAnswers(MaxClaims) :
         /\ fresponse' = a
         /\ fresult' = except_exception(handle_response(a))
    /\ fpc' = "returned"
    /\ UNCHANGED <<fkey, ftext, frequests>>
    /\ UNCHANGED <<consumervars, brokervars, veracityvars, scorervars, apivars>>

FactNext ==
    \/ FNoKey
    \/ FRequest
    \/ FAnswer

FactSpec == FactInit /\ [][FactNext]_vars

\* check_claim returned what _process_response made of a claims list
Processed ==
    /\ fpc = "returned"
    /\ fresponse.kind = "http"
    /\ fresponse.code = 200
    /\ fresponse.body.kind = "object"
    /\ fresponse.body.claims # <<>>

\* the numeric scores among the claims check_claim returned
ScoredEntries ==
    { i \in 1..Len(fresult.val.claims) : fresult.val.claims[i].score # NoScore }

RECURSIVE SumOver(_, _)
SumOver(S, claims) ==
    IF S = {} THEN 0
    ELSE LET i == CHOOSE j \in S : TRUE
         IN  claims[i].score + SumOver(S \ {i}, claims)

FactTypeOK ==
    /\ fpc \in {"idle", "requested", "returned"}
    /\ fresult.outcome \in {"none", "returned", "raised"}

\* C22: when at least one retained claim has a numeric score, veracity_score
\* is the mean of the numeric scores alone, rounded to a nearest integer: it
\* differs from the mean by at most one half (claims without a score count
\* neither in the sum nor in the divisor).
C22_MeanOfScored ==
    (Processed /\ ScoredEntries # {})
      => LET n == Cardinality(ScoredEntries)
             sum == SumOver(ScoredEntries, fresult.val.claims)
             vs == fresult.val.veracity_score
         IN  /\ vs # NoScore
             /\ 2 * (n * vs - sum) <= n
             /\ 2 * (sum - n * vs) <= n

\* the scores 100 and 0 with one claim that has no score give 50
C22_Witness ==
    /\ Processed
    /\ Len(fresult.val.claims) = 3
    /\ fresult.val.claims[1].score = 100
    /\ fresult.val.claims[2].score = 0
    /\ fresult.val.claims[3].score = NoScore
    /\ fresult.val.veracity_score = 50

\* a mean that lies halfway between two integers: 50, 0, 0, 0 give 12
HalfwayMean ==
    /\ Processed
    /\ Cardinality(ScoredEntries) = 4
    /\ SumOver(ScoredEntries, fresult.val.claims) = 50
    /\ fresult.val.veracity_score = 12

\* check_claim returned what _process_response made of a JSON object, with
\* or without claims
Answered ==
    /\ fpc = "returned"
    /\ fresponse.kind = "http"
    /\ fresponse.code = 200
    /\ fresponse.body.kind = "object"

\* C23: the veracity score of a processed response is null exactly when no
\* retained claim has a numeric score (no claim was found, or none of them
\* could be scored); otherwise it is an integer from 0 to 100, so a score of
\* 0 means that a claim was scored.
C23_NullIffNothingScored ==
    Answered
      => LET vs == fresult.val.veracity_score IN
         /\ vs = NoScore <=> ScoredEntries = {}
         /\ vs # NoScore => vs \in 0..100
         /\ vs = 0 => ScoredEntries # {}

\* two claims were retained, neither has a score, and the result has none
C23_Witness ==
    /\ Processed
    /\ Len(fresult.val.claims) = 2
    /\ ScoredEntries = {}
    /\ fresult.val.veracity_score = NoScore
    /\ fresult.val.status = "success"

\* a score of 0 from a claim rated False
ScoreZero ==
    /\ Processed
    /\ fresult.val.veracity_score = 0
    /\ ScoredEntries # {}

\* the request met a network error or a response with a status other than 200
RequestFailed ==
    \/ fresponse.kind = "neterror"
    \/ fresponse.kind = "http" /\ fresponse.code # 200

\* C24: check_claim never raises. Without an API key it returns a null score,
\* no claims and the status "no_api_key" and sends no request; after a
\* network error or a response with a status other than 200 it returns a
\* null score, no claims and a status that names the failure.
C24_NeverRaises ==
    /\ fresult.outcome # "raised"
    /\ fpc = "returned" => fresult.outcome = "returned"
    /\ (fpc = "returned" /\ ~fkey)
         => /\ fresult.val = [veracity_score |-> NoScore, claims |-> <<>>, status |-> "no_api_key"]
            /\ frequests = <<>>
    /\ (fpc = "returned" /\ RequestFailed)
         => /\ fresult.val.veracity_score = NoScore
            /\ fresult.val.claims = <<>>
            /\ fresult.val.status = IF fresponse.kind = "http" /\ fresponse.code = 403
                                    THEN "access_denied"
                                    ELSE "error"

\* a request that met a network error ended in the error result
C24_Witness ==
    /\ fpc = "returned"
    /\ fkey
    /\ Len(frequests) = 1
    /\ fresponse.kind = "neterror"
    /\ fresult = [outcome |-> "returned", val |-> [veracity_score |-> NoScore, claims |-> <<>>, status |-> "error"]]

\* a call without an API key returned at once
NoKeyReturned ==
    /\ fpc = "returned"
    /\ ~fkey
    /\ fresult.val.status = "no_api_key"

\* C25: of the n claims of a response, the processed list holds the first
\* min(n, 5), in the order of the response, and the score is the rounded mean
\* of the numeric scores of those entries alone.
C25_FirstFiveClaims ==
    Processed
      => LET returned == fresponse.body.claims
             kept == fresult.val.claims
             n == Len(returned)
             sum == SumOver(ScoredEntries, kept)
             cnt == Cardinality(ScoredEntries)
         IN  /\ Len(kept) = IF n < 5 THEN n ELSE 5
             /\ \A i \in 1..Len(kept) :
                  /\ kept[i].claim_text = returned[i].text
                  /\ kept[i].rating = IF returned[i].claimReview = <<>>
                                      THEN <<>>
                                      ELSE returned[i].claimReview[1]
             /\ cnt > 0 => /\ 2 * (cnt * fresult.val.veracity_score - sum) <= cnt
                           /\ 2 * (sum - cnt * fresult.val.veracity_score) <= cnt

\* six claims came back, the first five rated False and the sixth True: five
\* are kept and the score is 0
C25_Witness ==
    /\ Processed
    /\ Len(fresponse.body.claims) = 6
    /\ fresponse.body.claims[6].claimReview = <<RTrue>>
    /\ Len(fresult.val.claims) = 5
    /\ \A i \in 1..5 : fresult.val.claims[i].score = 0
    /\ fresult.val.veracity_score = 0

(***************************************************************************)
(* The query texts that reach the claim search                             *)
(***************************************************************************)
IsPrefix(p, text) ==
    /\ Len(p) <= Len(text)
    /\ \A i \in 1..Len(p) : p[i] = text[i]

\* C26: every query text sent to the claim search has at most 200
\* characters; the first one a call of the veracity subtask sends is a prefix
\* of the title, a second one is a prefix of the content before its first ".".
C26_QueryWithinLimit ==
    /\ Len(vsent) <= 2
    /\ \A i \in 1..Len(vsent) : Len(vsent[i]) <= 200
    /\ Len(vsent) >= 1 => IsPrefix(vsent[1], vtitle)
    /\ Len(vsent) = 2 => IsPrefix(vsent[2], PrefixBeforeDot(vcontent, Len(vcontent)))

\* a title of 201 characters and a content of 250 characters without an
\* early "." were both sent cut to 200 characters
C26_Witness ==
    /\ vpc = "returned"
    /\ Len(vtitle) = 201
    /\ Len(vcontent) = 250
    /\ Len(vsent) = 2
    /\ Len(vsent[1]) = 200
    /\ Len(vsent[2]) = 200

(***************************************************************************)
(* One event end to end, and the same event twice                          *)
(***************************************************************************)
\* the persistence pass of event a1 commits with two non-empty summaries,
\* the one extracted term T1 and the title query's one claim rated False
EndToEndStep ==
    /\ PersistStep
    /\ evstate' = "persisted"
    /\ ev.id = "a1"
    /\ results'.kid \notin {None, ""}
    /\ results'.pro \notin {None, ""}
    /\ results'.jargon = <<T1>>
    /\ results'.veracity = FalseResult

\* what that pass stores, the claim list aside
EndToEndRows ==
    /\ \A m \in {"kid", "pro"} : SummaryCommitted(m)
    /\ Len(JargonRows(jargon', "a1")) = 1
    /\ JargonRows(jargon', "a1")[1].term = "t1"
    /\ articles'["a1"].veracity_score = 0

\* C27: an event for a1 whose summarizers both return text, whose extractor
\* returns one term and whose title query returns one claim rated False
\* leaves one kid and one pro summary for a1, exactly one stored term, the
\* veracity score 0 and the stored claim list with that one claim, rating
\* False and score 0.
C27_EndToEnd ==
    [][ EndToEndStep
          => /\ EndToEndRows
             /\ articles'["a1"].fact_check_claims = <<Claim("False", 0)>> ]_vars

\* the same pass without the claim list
EndToEndWithoutClaimList ==
    [][ EndToEndStep => EndToEndRows ]_vars

EndToEndReached ==
    /\ evstate = "persisted"
    /\ ev.id = "a1"
    /\ results.jargon = <<T1>>
    /\ results.veracity = FalseResult
    /\ results.kid = "s1"
    /\ articles["a1"].veracity_score = 0

\* An event for a stored article has been delivered and its four subtasks
\* have returned: gather is about to return results. The event is one for
\* the new article a1 or for a0, which an earlier run enriched.
RedeliveryInit ==
    /\ ApiIdle
    /\ BrokerIdle
    /\ VeracityIdle
    /\ ScorerIdle
    /\ FactIdle
    /\ pc = "gather"
    /\ running = TRUE
    /\ kc = "open"
    /\ ev \in [id : DbArticleIds, content : {"c"}]
    /\ evstate = "dispatched"
    /\ inflight = {}
    /\ vq \in {1, 2}
    /\ results \in Gathered(vq, ev.content)
    /\ articles = PriorArticles
    /\ summaries = PriorSummaries
    /\ jargon = PriorJargon
    /\ dbopen = 0
    /\ now = 1
    /\ pulled = 1
    /\ sd = [path |-> "none", pc |-> "idle"]

\* gather returns the results at hand and _save_to_database runs
PersistSame ==
    /\ Persist
    /\ results' = results

\* the broker delivers the processed event once more (at-least-once
\* delivery), it is dispatched, and its subtasks return what they returned
\* before (lines 57-108)
Redeliver ==
    /\ pc = "pull"
    /\ kc = "open"
    /\ running
    /\ evstate = "persisted"
    /\ pulled < MaxEvents
    /\ pulled' = pulled + 1
    /\ now' = now + 1
    /\ evstate' = "dispatched"
    /\ pc' = "gather"
    /\ UNCHANGED <<running, kc, ev, inflight, vq, results, dbvars, sd>>
    /\ UNCHANGED othervars

RedeliveryNext ==
    \/ PersistSame
    \/ Redeliver

RedeliverySpec == RedeliveryInit /\ [][RedeliveryNext]_vars

\* summaries without their timestamps
WithoutTimestamps(rows) ==
    [i \in 1..Len(rows) |->
        [article_id |-> rows[i].article_id, mode |-> rows[i].mode,
         summary |-> rows[i].summary]]

RowSet(rows) == { rows[i] : i \in 1..Len(rows) }

\* C28: processing an event again with the same subtask results leaves the
\* stored summaries (timestamps aside), the stored terms and the veracity
\* assessment as the first processing left them: no record is added, none
\* is lost, none changes its content.
C28_DuplicateDelivery ==
    [][ (PersistStep /\ pulled > 1)
          => /\ WithoutTimestamps(summaries') = WithoutTimestamps(summaries)
             /\ Len(jargon') = Len(jargon)
             /\ RowSet(jargon') = RowSet(jargon)
             /\ articles' = articles ]_vars

\* the event for a0 was processed twice with two summaries, one term and a
\* score of 0; the second pass rewrote the summaries (their timestamp is
\* that of the second pass)
C28_Witness ==
    /\ pulled = 2
    /\ evstate = "persisted"
    /\ ev.id = "a0"
    /\ results.kid = "s2"
    /\ results.pro = "s1"
    /\ results.jargon = <<T1>>
    /\ results.veracity = FalseResult
    /\ \A i \in 1..Len(summaries) : summaries[i].generated_at = 2
    /\ Len(JargonRows(jargon, "a0")) = 1
    /\ articles["a0"].veracity_score = 0

(***************************************************************************)
(* Storage sessions                                                        *)
(***************************************************************************)
\* C29: the storage session a persistence pass opens is closed when the
\* pass ends, however it ends (commit, article not found, error and
\* rollback). _save_to_database runs without yielding, so every state lies
\* between passes: no storage session is open in any of them.
C29_SessionReleased == dbopen = 0

\* the pass of the second event ended in an error and was rolled back; no
\* session is open and the loop awaits the next message
C29_Witness ==
    /\ evstate = "failed"
    /\ ev.id = "a1"
    /\ pulled = 2
    /\ pc = "pull"
    /\ running
    /\ dbopen = 0

\* a pass that found no article has ended
NotFoundPassEnded ==
    /\ evstate = "notfound"
    /\ pc = "pull"
    /\ dbopen = 0

(***************************************************************************)
(* Events that fail validation                                             *)
(***************************************************************************)
\* C30: an event without id or without content goes from delivery straight
\* to "dropped": the step that delivers it starts none of the four subtasks
\* and issues no claim query, and while the event is the dropped one no
\* subtask is in flight and the loop does not wait on gather.
C30_InvalidEventStartsNothing ==
    /\ [](evstate = "dropped" => (inflight = {} /\ pc # "gather"))
    /\ [][ (DeliverStep /\ (ev'.id = "" \/ ev'.content = ""))
             => /\ evstate' = "dropped"
                /\ inflight' = {}
                /\ vq' = vq
                /\ results' = results ]_vars

\* an event with content and no id was dropped after an event that was
\* processed: nothing is in flight and the query count is the earlier one's
C30_Witness ==
    /\ evstate = "dropped"
    /\ ev.id = ""
    /\ ev.content = "c"
    /\ pulled = 2
    /\ inflight = {}
    /\ vq = 2
    /\ pc = "pull"

(***************************************************************************)
(* Progress of an event                                                    *)
(***************************************************************************)
\* The consumption loop with its scheduling: the event loop resumes a task
\* whose await has completed, every request to Gemini and to the claim
\* search returns or fails (the wrappers turn a failure into a return), and
\* _save_to_database runs as soon as gather has returned. Nothing obliges
\* the broker to deliver a message or anyone to call stop().
LiveSpec ==
    /\ Spec
    /\ WF_vars(GeminiReturn)
    /\ WF_vars(VeracityPrimaryReturn)
    /\ WF_vars(VeracityFallbackReturn)
    /\ WF_vars(Persist)

\* C31: an event that has been dispatched eventually ends its persistence
\* pass (persisted, article not found, or failed and rolled back) with the
\* loop back at the message iterator, unless the task is cancelled while it
\* waits on gather. (An invalid event is dropped in the step that delivers
\* it.)
C31_EventCompletes ==
    (pc = "gather")
      ~> \/ /\ pc = "pull"
            /\ evstate \in {"persisted", "notfound", "failed"}
         \/ evstate = "cancelled"

\* the second event failed in persistence and the loop, still running with
\* an open client, is back at the message iterator
C31_Witness ==
    /\ pc = "pull"
    /\ running
    /\ kc = "open"
    /\ evstate = "failed"
    /\ pulled = 2
    /\ sd.pc = "idle"

\* C32: as long as one subtask of the dispatched event has not returned, the
\* event's persistence pass does not run, nothing is written (the results of
\* the subtasks that did return included) and no further message is taken
\* from the broker; nothing in the loop ends that wait (no timeout), only the
\* subtask's return or the cancellation of the task does.
C32_HangStallsEvent ==
    /\ [][ (\E t \in Subtasks : t \in inflight /\ t \in inflight')
             => /\ ~PersistStep
                /\ pulled' = pulled
                /\ <<articles, summaries, jargon>>' = <<articles, summaries, jargon>>
                /\ evstate' = "dispatched"
                /\ pc' = "gather" ]_vars
    /\ [][ (inflight # {} /\ inflight' = {})
             => \/ Cardinality(inflight) = 1 /\ pc' = "gather"
                \/ evstate' = "cancelled" ]_vars

\* three subtasks of the first event have returned and the term extraction
\* has not: nothing of the event is stored and no second message was taken
C32_Witness ==
    /\ inflight = {"jargon"}
    /\ evstate = "dispatched"
    /\ ev.id = "a1"
    /\ pc = "gather"
    /\ pulled = 1
    /\ summaries = PriorSummaries
    /\ jargon = PriorJargon
    /\ articles = PriorArticles

(***************************************************************************)
(* The persistence pass, case by case                                      *)
(***************************************************************************)
\* C33: when the event's article id has no row in table articles, the
\* persistence pass, which runs after all four subtasks have returned,
\* writes nothing; unless the lookup itself fails, it raises nothing and
\* process_article completes as it does for a stored article: the loop goes
\* on to the next message.
C33_MissingArticleWritesNothing ==
    [][ (PersistStep /\ ev.id \notin DOMAIN articles)
          => /\ inflight = {}
             /\ <<articles, summaries, jargon>>' = <<articles, summaries, jargon>>
             /\ evstate' \in {"notfound", "failed"}
             /\ pc' = "pull"
             /\ running' = running ]_vars

\* the event for a2, which has no article row, went through its pass with
\* two summaries and a term gathered: nothing was stored
C33_Witness ==
    /\ evstate = "notfound"
    /\ ev.id = "a2"
    /\ results.kid = "s1"
    /\ results.pro = "s2"
    /\ results.jargon = <<T1>>
    /\ summaries = PriorSummaries
    /\ jargon = PriorJargon
    /\ articles = PriorArticles
    /\ pc = "pull"
    /\ running

(***************************************************************************)
(* Two writers of article_summaries: the consumer and get_article_summary  *)
(* (api/news.py), which main.py runs in the same event loop                *)
(***************************************************************************)
\* the article ids a request can name: a0 and a1 have a row, a2 has none
ApiArticleIds == DbArticleIds \cup {"a2"}

\* news.py lines 182-188: the generated summary is added as a new row
cache_summary(rows, article_id, mode, text, ts) ==
    Append(rows, [article_id |-> article_id, mode |-> mode,
                  summary |-> text, generated_at |-> ts])

\* news.py lines 161-179: the article is looked up (404 if there is none),
\* then its cached summary of the mode (returned if there is one); else the
\* handler awaits gemini_service.generate_summary
ApiCheck ==
    /\ api.pc = "idle"
    /\ \E a \in ApiArticleIds, m \in {"kid", "pro"} :
         api' = IF a \notin DOMAIN articles
                THEN [pc |-> "done", article_id |-> a, mode |-> m, outcome |-> "not_found"]
                ELSE IF Matching(summaries, a, m) # {}
                THEN [pc |-> "done", article_id |-> a, mode |-> m, outcome |-> "cached"]
                ELSE [pc |-> "generating", article_id |-> a, mode |-> m, outcome |-> "none"]
    /\ UNCHANGED <<consumervars, brokervars, veracityvars, scorervars, factvars>>

\* news.py lines 179-191: generate_summary returns and the new row is
\* committed, or it raises and the request fails
ApiStore ==
    /\ api.pc = "generating"
    /\ \E o \in SummaryOutcomes :
         IF o.kind = "raise"
         THEN /\ api' = [api EXCEPT !.pc = "done", !.outcome = "error"]
              /\ UNCHANGED summaries
         ELSE /\ api' = [api EXCEPT !.pc = "done", !.outcome = "generated"]
              /\ summaries' = cache_summary(summaries, api.article_id, api.mode, o.val, now)
    /\ UNCHANGED <<pc, running, kc, ev, evstate, inflight, vq, results,
                   articles, jargon, dbopen, now, pulled, sd>>
    /\ UNCHANGED <<brokervars, veracityvars, scorervars, factvars>>

\* the consumer, about to persist a dispatched event, and one request
WritersNext ==
    \/ PersistSame
    \/ ApiCheck
    \/ ApiStore

WritersSpec == RedeliveryInit /\ [][WritersNext]_vars

\* C34: with the consumer's upsert and the API's get-or-generate handler
\* writing concurrently, no key (article_id, mode) ever has two summary
\* records.
C34_OneSummaryPerKeyConcurrent ==
    \A a \in ApiArticleIds, m \in {"kid", "pro"} :
        Len(SummaryRows(summaries, a, m)) <= 1

\* an extracted list that is not empty and has no item that is an object
\* with a non-empty term
NoUsableTerm(jargon_list) ==
    /\ jargon_list # <<>>
    /\ \A i \in 1..Len(jargon_list) : ~IsTermItem(jargon_list[i])

\* C35: when the extraction returns a non-empty list without any item that
\* is an object with a non-empty term, the terms stored for the article
\* before the event are still stored after it.
C35_UnusableListKeepsTerms ==
    [][ (PersistStep /\ NoUsableTerm(results'.jargon))
          => \A i \in 1..Len(jargon) :
                jargon[i].article_id = ev.id
                  => \E j \in 1..Len(jargon') : jargon'[j] = jargon[i] ]_vars

\* such a pass committed and the article has no stored term
UnusableListErasedTerms ==
    /\ evstate = "persisted"
    /\ pulled = 2
    /\ ev.id = "a1"
    /\ NoUsableTerm(results.jargon)
    /\ JargonRows(jargon, "a1") = <<>>

\* C36: a committed pass whose veracity result has claims and no score
\* overwrites the stored assessment: the article's score is null afterwards,
\* also when it was a number before.
C36_UnscoredClaimsClearScore ==
    [][ (PersistStep /\ evstate' = "persisted"
           /\ results'.veracity.veracity_score = NoScore
           /\ results'.veracity.claims # <<>>)
          => articles'[ev.id].veracity_score = NoScore ]_vars

\* article a0, stored with the score 100, went through a committed pass
\* whose one claim was rated Unrated: its score is null
C36_Witness ==
    /\ evstate = "persisted"
    /\ ev.id = "a0"
    /\ pulled = 1
    /\ PriorArticles["a0"].veracity_score = 100
    /\ results.veracity = UnratedResult
    /\ articles["a0"].veracity_score = NoScore

(***************************************************************************)
(* The scores _rating_to_score can return                                  *)
(***************************************************************************)
\* C37: no rating scores 80. Every phrase of the 80 row contains a phrase of
\* the 100 row, so a rating in which a phrase of the 80 row occurs is caught
\* by the test of the 100 row, which comes first; the scores of a rating are
\* 100, 50, 20, 0 or none.
C37_EightyUnreachable ==
    /\ \A i \in 1..Len(Words80) : any_in(Words100, Words80[i])
    /\ rpc = "scored"
         => /\ score \in {100, 50, 20, 0, NoScore}
            /\ any_in(Words80, lower(rating)) => score = 100

\* "Largely true" was scored, and scored 100
C37_Witness ==
    /\ rpc = "scored"
    /\ rating = <<"L", "a", "r", "g", "e", "l", "y", " ", "t", "r", "u", "e">>
    /\ any_in(Words80, lower(rating))
    /\ score = 100

\* each of the other scores is returned for some rating
ScoresReturned ==
    \A v \in {50, 20, 0, NoScore} :
        \E r \in Ratings : rating_to_score(r) = v

(***************************************************************************)
(* A summary subtask without a text                                        *)
(***************************************************************************)
OtherMode(m) == IF m = "kid" THEN "pro" ELSE "kid"

\* C38: when the gathered summary of a mode is None or the empty string, the
\* persistence pass leaves the summary records of that mode as they are (no
\* row added, text and timestamp of an existing row kept); if the pass
\* commits and the other mode has a text, that mode's record is written.
C38_NoTextNoWrite ==
    [][ PersistStep
          => \A m \in {"kid", "pro"} :
               results'[m] \in {None, ""}
                 => /\ SummaryRows(summaries', ev.id, m) = SummaryRows(summaries, ev.id, m)
                    /\ (evstate' = "persisted" /\ results'[OtherMode(m)] \notin {None, ""})
                          => SummaryCommitted(OtherMode(m)) ]_vars

\* article a0 went through a committed pass with an empty kid summary and a
\* pro summary: its kid record is the stored one, with its old timestamp,
\* and its pro record is new
C38_Witness ==
    /\ evstate = "persisted"
    /\ ev.id = "a0"
    /\ pulled = 1
    /\ results.kid = ""
    /\ results.pro = "s1"
    /\ SummaryRows(summaries, "a0", "kid")
         = << [article_id |-> "a0", mode |-> "kid", summary |-> "s1", generated_at |-> 0] >>
    /\ SummaryRows(summaries, "a0", "pro")
         = << [article_id |-> "a0", mode |-> "pro", summary |-> "s1", generated_at |-> 1] >>

(***************************************************************************)
(* The result of the veracity subtask after a fallback query                *)
(***************************************************************************)
\* the status the result of a call has, given the status recorded for the
\* answer of its last query
StatusAfter(answer) == IF answer = "raised" THEN "error" ELSE answer

\* C39: when the fallback query was issued, the result the veracity subtask
\* returns is the result of the fallback query, whatever its status: the step
\* that receives the fallback's answer makes that answer the result, and a
\* returned result after two queries has the status of the second answer and,
\* when that status is not "success", neither a score nor claims.
C39_FallbackReplacesPrimary ==
    /\ [][ (vpc = "fallback" /\ vpc' = "returned")
             => \E o \in answers_for(vkey, vqueries[2]) :
                  /\ vanswers' = Append(vanswers, answer_status(o))
                  /\ vresult' = check_veracity(o) ]_vars
    /\ [](vpc = "returned" /\ Len(vqueries) = 2
            => /\ vanswers[1] = "no_matching_claims"
               /\ vresult.status = StatusAfter(vanswers[2])
               /\ vresult.status # "success"
                    => vresult.veracity_score = NoScore /\ vresult.claims = <<>>)

\* the title query found nothing, the fallback query answered with an error,
\* and the error result was returned
C39_Witness ==
    /\ vpc = "returned"
    /\ Len(vqueries) = 2
    /\ vanswers = << "no_matching_claims", "error" >>
    /\ vresult = ErrorResult

====
